---- MODULE Spec2Model ----
(***************************************************************************)
(* A model of the frame graph of filament/src/fg/FrameGraph.cpp:           *)
(* registration through the Builder, compile() (materialize, alias,        *)
(* reference counting, culling, lifetime attachment) and execute().        *)
(*                                                                         *)
(* Pointers are indices: a PassNode* is the pass id (NoPass for nullptr),  *)
(* a Resource* is the index in mResourceRegistry (NoResource for nullptr). *)
(* Ids are 0-based as in the code; element id of a vector is at id + 1 of  *)
(* the sequence that models it.                                            *)
(***************************************************************************)
EXTENDS Integers, Sequences, FiniteSets, TLC

VARIABLES
    mPassNodes,         \* std::vector<PassNode>
    mResourceNodes,     \* std::vector<ResourceNode>
    mResourceRegistry,  \* std::vector<Resource>
    mAliases,           \* std::vector<Alias>
    stack,              \* compile(): the cull work list
    pc,                 \* "register", "cull" (inside compile), "execute"
    cur,                \* execute(): index of the next pass of the loop
    setup,              \* TRUE while the setup callback of the last pass runs
    ret,                \* handle the last call returned (Void: it returned none)
    trace,              \* calls of the running execute(), in order
    serial,             \* history: successful writes per resource node
    frame               \* number of execute() calls that returned

vars == <<mPassNodes, mResourceNodes, mResourceRegistry, mAliases, stack, pc,
          cur, setup, ret, trace, serial, frame>>

\* ---------------------------------------------------------------- bounds
MaxNodes == 2
MaxPasses == 3
MaxDecls == 2
MaxAliases == 1
MaxFrames == 2
MaxDesc == 1

\* ------------------------------------------------------------- constants
\* uint16_t index / version of a handle and of a ResourceNode
UInt16 == 65536
\* A uint32_t counter (refCount, readerCount, writerCount) is kept as the
\* int32_t of the same bits: 0 - 1 is -1, which stands for 4294967295; a
\* counter is "non-zero" (true in a condition, >= 1 as unsigned) iff it is # 0.
Inc32(n) == n + 1
Dec32(n) == n - 1
\* FrameGraphResource::UNINITIALIZED, the index of the sentinel handle
UNINITIALIZED == 65535

NoPass == -1
NoResource == -1
NullHandle == 0

COLOR == "COLOR"
DEPTH == "DEPTH"
\* RWFlags values a client passes
FlagArgs == {{COLOR}, {DEPTH}, {COLOR, DEPTH}}
\* default argument of Builder::read / Builder::write
DefaultFlags == {COLOR}
Descriptors == 1..MaxDesc

\* FrameGraphResource { uint16_t index; uint16_t version; }
Handle(index, version) == <<index, version>>
Index(h) == h[1]
Version(h) == h[2]

\* the default-constructed FrameGraphResource
Sentinel == Handle(UNINITIALIZED, 0)
\* what ret holds after a call that returns no handle
Void == Handle(-1, 0)
\* FrameGraphResource::isValid
Handle_isValid(h) == Index(h) # UNINITIALIZED

\* ------------------------------------------------------------ data model
\* ResourceNode(name, index)
NewResourceNode(index, desc) ==
    [index |-> index, version |-> 0, desc |-> desc,
     readFlags |-> {}, writeFlags |-> {}, resource |-> NoResource]

\* PassNode(name, id, base)
NewPassNode(name, id) ==
    [name |-> name, id |-> id, reads |-> <<>>, writes |-> <<>>,
     devirtualize |-> <<>>, destroy |-> <<>>, refCount |-> 0]

\* Resource(name)
NewResource ==
    [writer |-> NoPass, first |-> NoPass, last |-> NoPass,
     writerCount |-> 0, readerCount |-> 0, desc |-> 0,
     readFlags |-> {}, writeFlags |-> {},
     textures |-> <<NullHandle, NullHandle>>, target |-> NullHandle]

\* ------------------------------------------------------------- handles
\* FrameGraph::isValid against the node registry
isValidIn(registry, handle) ==
    IF ~Handle_isValid(handle) THEN FALSE
    ELSE Version(handle) = registry[Index(handle) + 1].version

\* FrameGraph::isValid
isValid(handle) == isValidIn(mResourceNodes, handle)

\* a getResource that resolves a handle whatever its version
getResource_anyVersion(r) ==
    IF ~Handle_isValid(r) THEN NoResource
    ELSE Index(r)

\* FrameGraph::getResource: the index of the node, or NoResource for nullptr
getResource(r) ==
    IF ~Handle_isValid(r) THEN NoResource
    ELSE IF Version(r) # mResourceNodes[Index(r) + 1].version THEN NoResource
    ELSE Index(r)

\* FrameGraph::getTextureDesc: the descriptor, or 0 for nullptr
getTextureDesc(r) ==
    IF getResource(r) = NoResource THEN 0
    ELSE mResourceNodes[getResource(r) + 1].desc

\* The handles the Builder has handed out for node i in this frame: version
\* 0 from createTexture and one more for every successful write.
IssuedVersions(i) ==
    IF serial[i + 1] >= UInt16 THEN 0..(UInt16 - 1) ELSE 0..serial[i + 1]

\* Handles a client can pass to the Builder: issued ones (stale or current)
\* and the default-constructed one.
ClientHandles ==
    {Sentinel} \cup
    UNION {{Handle(i, v) : v \in IssuedVersions(i)} :
              i \in 0..(Len(mResourceNodes) - 1)}

\* Handles that pass FrameGraph::isValid
ValidHandles == {h \in ClientHandles : isValid(h)}

\* -------------------------------------------------------- registration
Registering == pc = "register"

\* read and write entries the setup callbacks of addPass recorded in this
\* frame (the read of present() apart), over passes k..Len(passes)
RECURSIVE Decls(_, _)
Decls(passes, k) ==
    IF k > Len(passes) THEN 0
    ELSE (IF passes[k].name = "Present" THEN 0
          ELSE Len(passes[k].reads) + Len(passes[k].writes))
         + Decls(passes, k + 1)

\* FrameGraph::createPass
createPass(name) ==
    Append(mPassNodes, NewPassNode(name, Len(mPassNodes)))

\* FrameGraph::createResource
createResource(desc) ==
    Append(mResourceNodes, NewResourceNode(Len(mResourceNodes) % UInt16, desc))

\* a PassNode::read that keeps one entry per handle
PassNode_read_dedupe(passes, p, node) ==
    IF \E k \in 1..Len(passes[p].reads) :
           passes[p].reads[k] = Handle(node.index, node.version)
    THEN passes
    ELSE [passes EXCEPT ![p].reads =
             Append(@, Handle(node.index, node.version))]

\* PassNode::read applied to pass p of passes
PassNode_read(passes, p, node) ==
    [passes EXCEPT ![p].reads =
        Append(@, Handle(node.index, node.version))]

\* ++resource.version of PassNode::write
BumpVersion(v) == (v + 1) % UInt16

\* PassNode::write applied to pass p of passes; node is the node before the call
PassNode_write(passes, p, node) ==
    [passes EXCEPT ![p].writes =
        Append(@, Handle(node.index, BumpVersion(node.version)))]

\* Builder::createTexture: [nodes, result]
Builder_createTexture(desc) ==
    LET nodes == createResource(desc)
        resource == nodes[Len(nodes)] IN
    [nodes |-> nodes,
     result |-> Handle(resource.index, resource.version)]

\* Builder::read for the Builder of the last pass of passes:
\* [nodes, passes, result]
Builder_read(passes, input, readFlags) ==
    LET r == getResource(input) IN
    IF r = NoResource
    THEN [nodes |-> mResourceNodes, passes |-> passes, result |-> Sentinel]
    ELSE [nodes |-> [mResourceNodes EXCEPT ![r + 1].readFlags = @ \cup readFlags],
          passes |-> PassNode_read(passes, Len(passes), mResourceNodes[r + 1]),
          result |-> input]

\* Builder::write for the Builder of the last pass of passes:
\* [nodes, passes, result]
Builder_write(passes, output, writeFlags) ==
    LET r == getResource(output) IN
    IF r = NoResource
    THEN [nodes |-> mResourceNodes, passes |-> passes, result |-> Sentinel]
    ELSE LET resource == mResourceNodes[r + 1] IN
         [nodes |-> [mResourceNodes EXCEPT
                        ![r + 1].writeFlags = @ \cup writeFlags,
                        ![r + 1].version = BumpVersion(@)],
          passes |-> PassNode_write(passes, Len(passes), resource),
          result |-> Handle(resource.index, BumpVersion(resource.version))]

\* history: serial counts the successful writes on each node
SerialAfterWrite(output) ==
    IF getResource(output) = NoResource THEN serial
    ELSE [serial EXCEPT ![getResource(output) + 1] = @ + 1]

\* addPass: createPass, then the setup callback runs against the new pass
AddPass ==
    /\ Registering
    /\ mPassNodes' = createPass("Pass")
    /\ setup' = TRUE
    /\ ret' = Void
    /\ UNCHANGED <<mResourceNodes, mResourceRegistry, mAliases, stack, pc, cur,
                   trace, serial, frame>>

\* a setup callback calls Builder::createTexture
CreateTexture(desc) ==
    /\ Registering
    /\ setup
    /\ mResourceNodes' = Builder_createTexture(desc).nodes
    /\ ret' = Builder_createTexture(desc).result
    /\ serial' = Append(serial, 0)
    /\ UNCHANGED <<mPassNodes, mResourceRegistry, mAliases, stack, pc, cur,
                   setup, trace, frame>>

\* a setup callback calls Builder::read
Read(input, readFlags) ==
    /\ Registering
    /\ setup
    /\ mResourceNodes' = Builder_read(mPassNodes, input, readFlags).nodes
    /\ mPassNodes' = Builder_read(mPassNodes, input, readFlags).passes
    /\ ret' = Builder_read(mPassNodes, input, readFlags).result
    /\ UNCHANGED <<mResourceRegistry, mAliases, stack, pc, cur, setup, trace,
                   serial, frame>>

\* a setup callback calls Builder::write
Write(output, writeFlags) ==
    /\ Registering
    /\ setup
    /\ mResourceNodes' = Builder_write(mPassNodes, output, writeFlags).nodes
    /\ mPassNodes' = Builder_write(mPassNodes, output, writeFlags).passes
    /\ ret' = Builder_write(mPassNodes, output, writeFlags).result
    /\ serial' = SerialAfterWrite(output)
    /\ UNCHANGED <<mResourceRegistry, mAliases, stack, pc, cur, setup, trace, frame>>

\* a setup callback calls Builder::write n times in a row, the first time on
\* output and then on the handle the call before returned: BumpVersion n
\* times, n entries in the writes list
WriteLoop(output, writeFlags, n) ==
    /\ Registering
    /\ setup
    /\ n >= 1
    /\ getResource(output) # NoResource
    /\ LET r == getResource(output)
           v == mResourceNodes[r + 1].version
           p == Len(mPassNodes) IN
       /\ mResourceNodes' =
             [mResourceNodes EXCEPT ![r + 1].writeFlags = @ \cup writeFlags,
                                    ![r + 1].version = (v + n) % UInt16]
       /\ mPassNodes' =
             [mPassNodes EXCEPT ![p].writes =
                 @ \o [k \in 1..n |-> Handle(r, (v + k) % UInt16)]]
       /\ serial' = [serial EXCEPT ![r + 1] = @ + n]
       /\ ret' = Handle(r, (v + n) % UInt16)
    /\ UNCHANGED <<mResourceRegistry, mAliases, stack, pc, cur, setup, trace, frame>>

\* FrameGraph::present: addPass("Present") whose setup reads input with the
\* default flags; the setup callback has returned when present returns
Present(input) ==
    /\ Registering
    /\ mResourceNodes' = Builder_read(createPass("Present"), input, DefaultFlags).nodes
    /\ mPassNodes' = Builder_read(createPass("Present"), input, DefaultFlags).passes
    /\ setup' = FALSE
    /\ ret' = Void
    /\ UNCHANGED <<mResourceRegistry, mAliases, stack, pc, cur, trace, serial, frame>>

\* FrameGraph::moveResource
MoveResource(from, to) ==
    /\ Registering
    /\ mAliases' = Append(mAliases, [from |-> from, to |-> to])
    /\ ret' = Void
    /\ UNCHANGED <<mPassNodes, mResourceNodes, mResourceRegistry, stack, pc, cur,
                   setup, trace, serial, frame>>

\* ------------------------------------------------------------- compile()
\* a materialization that merges into a record the declarations made through
\* the nodes the aliases redirect to it
MaterializeRegistry_merged(nodes) ==
    [i \in 1..Len(nodes) |->
        LET merged == {i} \cup {Index(mAliases[k].to) + 1 : k \in
                         {j \in 1..Len(mAliases) : Index(mAliases[j].from) + 1 = i}} IN
        [NewResource EXCEPT !.desc = nodes[i].desc,
                            !.readFlags = UNION {nodes[j].readFlags : j \in merged},
                            !.writeFlags = UNION {nodes[j].writeFlags : j \in merged}]]

\* "create the sub-resources": one Resource per node, in node order
MaterializeRegistry(nodes) ==
    [i \in 1..Len(nodes) |->
        [NewResource EXCEPT !.desc = nodes[i].desc,
                            !.readFlags = nodes[i].readFlags,
                            !.writeFlags = nodes[i].writeFlags]]

MaterializeNodes(nodes) ==
    [i \in 1..Len(nodes) |-> [nodes[i] EXCEPT !.resource = i - 1]]

\* a remap that redirects the source node to the destination's record
RECURSIVE Remap_swapped(_, _, _)
Remap_swapped(nodes, aliases, k) ==
    IF k > Len(aliases) THEN nodes
    ELSE Remap_swapped([nodes EXCEPT ![Index(aliases[k].from) + 1].resource =
                                         nodes[Index(aliases[k].to) + 1].resource],
                       aliases, k + 1)

\* "remap them": the aliases from the k-th on, in registration order
RECURSIVE Remap(_, _, _)
Remap(nodes, aliases, k) ==
    IF k > Len(aliases) THEN nodes
    ELSE Remap([nodes EXCEPT ![Index(aliases[k].to) + 1].resource =
                                 nodes[Index(aliases[k].from) + 1].resource],
               aliases, k + 1)

\* a bookkeeping that overwrites first like last
Touch_firstOverwritten(res, p) ==
    [res EXCEPT !.first = p, !.last = p]

\* subResource->first = subResource->first ? subResource->first : &pass;
\* subResource->last = &pass;
Touch(res, p) ==
    [res EXCEPT !.first = IF @ # NoPass THEN @ ELSE p, !.last = p]

\* the loop over pass.reads, from entry k on
RECURSIVE CountReads(_, _, _, _, _)
CountReads(registry, nodes, p, reads, k) ==
    IF k > Len(reads) THEN registry
    ELSE LET sub == nodes[Index(reads[k]) + 1].resource + 1 IN
         CountReads([registry EXCEPT ![sub] =
                        Touch([@ EXCEPT !.readerCount = Inc32(@)], p)],
                    nodes, p, reads, k + 1)

\* the loop over pass.writes, from entry k on
RECURSIVE CountWrites(_, _, _, _, _)
CountWrites(registry, nodes, p, writes, k) ==
    IF k > Len(writes) THEN registry
    ELSE LET sub == nodes[Index(writes[k]) + 1].resource + 1 IN
         CountWrites([registry EXCEPT ![sub] =
                        Touch([@ EXCEPT !.writer = p,
                                        !.writerCount = Inc32(@)], p)],
                     nodes, p, writes, k + 1)

\* the loop over mPassNodes, from pass k (1-based) on: the registry side
RECURSIVE CountPasses(_, _, _, _)
CountPasses(registry, nodes, passes, k) ==
    IF k > Len(passes) THEN registry
    ELSE CountPasses(
            CountWrites(CountReads(registry, nodes, k - 1, passes[k].reads, 1),
                        nodes, k - 1, passes[k].writes, 1),
            nodes, passes, k + 1)

\* a reference count of 1 for every pass that writes at all
InitRefCounts_flag(passes) ==
    [k \in 1..Len(passes) |->
        [passes[k] EXCEPT !.refCount = IF passes[k].writes = <<>> THEN 0 ELSE 1]]

\* pass.refCount = (uint32_t)pass.writes.size();
InitRefCounts(passes) ==
    [k \in 1..Len(passes) |->
        [passes[k] EXCEPT !.refCount = Len(passes[k].writes)]]

\* a seeding of the stack that pushes every resource
RECURSIVE SeedStack_all(_, _, _)
SeedStack_all(registry, k, st) ==
    IF k > Len(registry) THEN st
    ELSE SeedStack_all(registry, k + 1, Append(st, k - 1))

\* the stack of resources nobody reads, in registry order from entry k on
RECURSIVE SeedStack(_, _, _)
SeedStack(registry, k, st) ==
    IF k > Len(registry) THEN st
    ELSE SeedStack(registry, k + 1,
                   IF registry[k].readerCount = 0 THEN Append(st, k - 1) ELSE st)

\* compile() up to the cull loop
CompileBegin ==
    /\ pc = "register"
    /\ LET nodes == Remap(MaterializeNodes(mResourceNodes), mAliases, 1)
           registry == CountPasses(MaterializeRegistry(mResourceNodes), nodes,
                                   mPassNodes, 1) IN
       /\ mResourceNodes' = nodes
       /\ mResourceRegistry' = registry
       /\ mPassNodes' = InitRefCounts(mPassNodes)
       /\ stack' = SeedStack(registry, 1, <<>>)
    /\ pc' = "cull"
    /\ setup' = FALSE
    /\ ret' = Void
    /\ UNCHANGED <<mAliases, cur, trace, serial, frame>>

\* a culled pass releases its reads, from entry k on: [registry, stack]
RECURSIVE ReleaseReads(_, _, _, _)
ReleaseReads(rs, nodes, reads, k) ==
    IF k > Len(reads) THEN rs
    ELSE LET r == nodes[Index(reads[k]) + 1].resource
             n == Dec32(rs.registry[r + 1].readerCount) IN
         ReleaseReads(
            [registry |-> [rs.registry EXCEPT ![r + 1].readerCount = n],
             stack |-> IF n = 0 THEN Append(rs.stack, r) ELSE rs.stack],
            nodes, reads, k + 1)

\* --writer->refCount
DecRefCount(n) == Dec32(n)

\* one iteration of a cull loop that leaves a writerless resource on the stack
CullStep_keepWriterless ==
    /\ pc = "cull"
    /\ stack # <<>>
    /\ LET pSubResource == stack[Len(stack)]
           popped == SubSeq(stack, 1, Len(stack) - 1)
           writer == mResourceRegistry[pSubResource + 1].writer IN
       IF writer = NoPass
       THEN UNCHANGED <<stack, mPassNodes, mResourceRegistry>>
       ELSE LET n == DecRefCount(mPassNodes[writer + 1].refCount) IN
            /\ mPassNodes' = [mPassNodes EXCEPT ![writer + 1].refCount = n]
            /\ IF n = 0
               THEN LET rs == ReleaseReads(
                                [registry |-> mResourceRegistry, stack |-> popped],
                                mResourceNodes, mPassNodes[writer + 1].reads, 1) IN
                    /\ mResourceRegistry' = rs.registry
                    /\ stack' = rs.stack
               ELSE /\ stack' = popped
                    /\ UNCHANGED mResourceRegistry
    /\ UNCHANGED <<mResourceNodes, mAliases, pc, cur, setup, ret, trace, serial, frame>>

\* one iteration of the cull loop
CullStep ==
    /\ pc = "cull"
    /\ stack # <<>>
    /\ LET pSubResource == stack[Len(stack)]
           popped == SubSeq(stack, 1, Len(stack) - 1)
           writer == mResourceRegistry[pSubResource + 1].writer IN
       IF writer = NoPass
       THEN /\ stack' = popped
            /\ UNCHANGED <<mPassNodes, mResourceRegistry>>
       ELSE LET n == DecRefCount(mPassNodes[writer + 1].refCount) IN
            /\ mPassNodes' = [mPassNodes EXCEPT ![writer + 1].refCount = n]
            /\ IF n = 0
               THEN LET rs == ReleaseReads(
                                [registry |-> mResourceRegistry, stack |-> popped],
                                mResourceNodes, mPassNodes[writer + 1].reads, 1) IN
                    /\ mResourceRegistry' = rs.registry
                    /\ stack' = rs.stack
               ELSE /\ stack' = popped
                    /\ UNCHANGED mResourceRegistry
    /\ UNCHANGED <<mResourceNodes, mAliases, pc, cur, setup, ret, trace, serial, frame>>

\* whether the last loop of compile() attaches registry entry index
Realized(resource) ==
    resource.readerCount # 0 /\ resource.first # NoPass /\ resource.last # NoPass

\* a last loop that pushes the index on the destroy list of first
RECURSIVE Attach_destroyAtFirst(_, _, _)
Attach_destroyAtFirst(passes, registry, index) ==
    IF index >= Len(registry) THEN passes
    ELSE LET resource == registry[index + 1] IN
         Attach_destroyAtFirst(
            IF Realized(resource)
            THEN LET a == [passes EXCEPT ![resource.first + 1].devirtualize =
                                            Append(@, index)] IN
                 [a EXCEPT ![resource.first + 1].destroy = Append(@, index)]
            ELSE passes,
            registry, index + 1)

\* the last loop of compile(), from registry index (0-based) on
RECURSIVE Attach(_, _, _)
Attach(passes, registry, index) ==
    IF index >= Len(registry) THEN passes
    ELSE LET resource == registry[index + 1] IN
         Attach(IF Realized(resource)
                THEN LET a == [passes EXCEPT ![resource.first + 1].devirtualize =
                                                Append(@, index)] IN
                     [a EXCEPT ![resource.last + 1].destroy = Append(@, index)]
                ELSE passes,
                registry, index + 1)

\* compile() after the cull loop
CompileEnd ==
    /\ pc = "cull"
    /\ stack = <<>>
    /\ mPassNodes' = Attach(mPassNodes, mResourceRegistry, 0)
    /\ pc' = "execute"
    /\ cur' = 0
    /\ trace' = <<>>
    /\ UNCHANGED <<mResourceNodes, mResourceRegistry, mAliases, stack, setup, ret,
                   serial, frame>>

\* ------------------------------------------------------------- execute()
Call(call, pass, res, handle) ==
    [call |-> call, pass |-> pass, res |-> res, handle |-> handle]

\* a Driver create call returns a handle no earlier call of the frame returned
FreshHandle(tr) == Len(tr) + 1

\* Resource::create for registry entry id, called for pass p: [registry, trace]
Resource_create(rt, id, p) ==
    LET res == rt.registry[id + 1]
        t0 == Append(rt.trace, Call("create", p, id, NullHandle))
        color == res.readerCount # 0 /\ COLOR \in res.readFlags
        t1 == IF color THEN Append(t0, Call("createTexture", p, id, FreshHandle(t0)))
              ELSE t0
        r1 == IF color THEN [res EXCEPT !.textures[1] = FreshHandle(t0)] ELSE res
        depth == res.readerCount # 0 /\ DEPTH \in res.readFlags
        t2 == IF depth THEN Append(t1, Call("createTexture", p, id, FreshHandle(t1)))
              ELSE t1
        r2 == IF depth THEN [r1 EXCEPT !.textures[2] = FreshHandle(t1)] ELSE r1
        tgt == res.writerCount # 0
        t3 == IF tgt THEN Append(t2, Call("createRenderTarget", p, id, FreshHandle(t2)))
              ELSE t2
        r3 == IF tgt THEN [r2 EXCEPT !.target = FreshHandle(t2)] ELSE r2
    IN [registry |-> [rt.registry EXCEPT ![id + 1] = r3], trace |-> t3]

\* a Resource::destroy that does not test the handles before releasing them
Resource_destroy_unchecked(rt, id, p) ==
    LET res == rt.registry[id + 1]
        t0 == Append(rt.trace, Call("destroy", p, id, NullHandle))
        t1 == Append(t0, Call("destroyTexture", p, id, res.textures[1]))
        t2 == Append(t1, Call("destroyTexture", p, id, res.textures[2]))
        t3 == Append(t2, Call("destroyRenderTarget", p, id, res.target))
    IN [registry |-> rt.registry, trace |-> t3]

\* Resource::destroy for registry entry id, called for pass p: [registry, trace]
Resource_destroy(rt, id, p) ==
    LET res == rt.registry[id + 1]
        t0 == Append(rt.trace, Call("destroy", p, id, NullHandle))
        t1 == IF res.textures[1] # NullHandle
              THEN Append(t0, Call("destroyTexture", p, id, res.textures[1])) ELSE t0
        t2 == IF res.textures[2] # NullHandle
              THEN Append(t1, Call("destroyTexture", p, id, res.textures[2])) ELSE t1
        t3 == IF res.target # NullHandle
              THEN Append(t2, Call("destroyRenderTarget", p, id, res.target)) ELSE t2
    IN [registry |-> rt.registry, trace |-> t3]

\* "create concrete resources": node.devirtualize from entry k on
RECURSIVE Devirtualize(_, _, _, _)
Devirtualize(rt, ids, p, k) ==
    IF k > Len(ids) THEN rt
    ELSE Devirtualize(Resource_create(rt, ids[k], p), ids, p, k + 1)

\* "destroy concrete resources": node.destroy from entry k on
RECURSIVE Destroy(_, _, _, _)
Destroy(rt, ids, p, k) ==
    IF k > Len(ids) THEN rt
    ELSE Destroy(Resource_destroy(rt, ids[k], p), ids, p, k + 1)

\* if (!node.refCount) continue;
Skipped(node) == node.refCount = 0

\* the body of the loop of execute() for one pass: [registry, trace]
RunPass(rt, node) ==
    IF Skipped(node) THEN rt
    ELSE LET a == Devirtualize(rt, node.devirtualize, node.id, 1)
             b == [a EXCEPT !.trace =
                      Append(@, Call("execute", node.id, NoResource, NullHandle))]
         IN Destroy(b, node.destroy, node.id, 1)

\* a loop of execute() that walks mPassNodes from the back
NextPass_reverse(passes, k) == passes[Len(passes) - k]

\* the pass the loop of execute() takes next
NextPass(passes, k) == passes[k + 1]

\* one iteration of the loop of execute()
ExecutePass ==
    /\ pc = "execute"
    /\ cur < Len(mPassNodes)
    /\ LET rt == RunPass([registry |-> mResourceRegistry, trace |-> trace],
                         NextPass(mPassNodes, cur)) IN
       /\ mResourceRegistry' = rt.registry
       /\ trace' = rt.trace
    /\ cur' = cur + 1
    /\ UNCHANGED <<mPassNodes, mResourceNodes, mAliases, stack, pc, setup, ret,
                   serial, frame>>

\* an execute() that returns without clearing mAliases
ExecuteReset_keepAliases ==
    /\ pc = "execute"
    /\ cur = Len(mPassNodes)
    /\ mPassNodes' = <<>>
    /\ mResourceNodes' = <<>>
    /\ mResourceRegistry' = <<>>
    /\ pc' = "register"
    /\ cur' = 0
    /\ trace' = <<>>
    /\ serial' = <<>>
    /\ frame' = frame + 1
    /\ UNCHANGED <<mAliases, stack, setup, ret>>

\* an execute() that returns without clearing mResourceNodes
ExecuteReset_keepNodes ==
    /\ pc = "execute"
    /\ cur = Len(mPassNodes)
    /\ mPassNodes' = <<>>
    /\ mResourceRegistry' = <<>>
    /\ mAliases' = <<>>
    /\ pc' = "register"
    /\ cur' = 0
    /\ trace' = <<>>
    /\ frame' = frame + 1
    /\ UNCHANGED <<mResourceNodes, serial, stack, setup, ret>>

\* "reset the frame graph state", and execute() returns
ExecuteReset ==
    /\ pc = "execute"
    /\ cur = Len(mPassNodes)
    /\ mPassNodes' = <<>>
    /\ mResourceNodes' = <<>>
    /\ mResourceRegistry' = <<>>
    /\ mAliases' = <<>>
    /\ pc' = "register"
    /\ cur' = 0
    /\ trace' = <<>>
    /\ serial' = <<>>
    /\ frame' = frame + 1
    /\ UNCHANGED <<stack, setup, ret>>

\* FrameGraphPassResources::getTexture, attachment being the TextureUsage
getTexture(r, attachment) ==
    LET pResource == mResourceRegistry[mResourceNodes[Index(r) + 1].resource + 1] IN
    IF attachment = "DEFAULT" /\ pResource.readFlags = {DEPTH}
    THEN pResource.textures[2]
    ELSE IF attachment \in {"DEFAULT", "COLOR_ATTACHMENT"}
         THEN pResource.textures[1]
         ELSE pResource.textures[2]

\* FrameGraphPassResources::getRenderTarget
getRenderTarget(r) ==
    mResourceRegistry[mResourceNodes[Index(r) + 1].resource + 1].target

\* ------------------------------------------------------- specification
Init ==
    /\ mPassNodes = <<>>
    /\ mResourceNodes = <<>>
    /\ mResourceRegistry = <<>>
    /\ mAliases = <<>>
    /\ stack = <<>>
    /\ pc = "register"
    /\ cur = 0
    /\ setup = FALSE
    /\ ret = Void
    /\ trace = <<>>
    /\ serial = <<>>
    /\ frame = 0

\* the bounds of the exploration
MorePasses == Len(mPassNodes) < MaxPasses
MoreNodes == Len(mResourceNodes) < MaxNodes
MoreDecls == Decls(mPassNodes, 1) < MaxDecls
MoreAliases == Len(mAliases) < MaxAliases
MoreFrames == frame < MaxFrames

Next ==
    \/ MoreFrames /\ MorePasses /\ AddPass
    \/ MoreFrames /\ MoreNodes /\ \E desc \in Descriptors : CreateTexture(desc)
    \/ MoreFrames /\ MoreDecls /\ \E h \in ClientHandles, f \in FlagArgs : Read(h, f)
    \/ MoreFrames /\ MoreDecls /\ \E h \in ClientHandles, f \in FlagArgs : Write(h, f)
    \/ MoreFrames /\ MorePasses /\ \E h \in ClientHandles : Present(h)
    \/ MoreFrames /\ MoreAliases /\
          \E from \in ValidHandles, to \in ValidHandles : MoveResource(from, to)
    \/ MoreFrames /\ CompileBegin
    \/ CullStep
    \/ CompileEnd
    \/ ExecutePass
    \/ ExecuteReset

Spec == Init /\ [][Next]_vars

\* Registration with a pass that writes one resource until its 16-bit
\* version is about to wrap or has just wrapped: WrapCount or WrapCount + 1
\* writes in one setup callback, and single writes before or after it.
WrapCount == UInt16 - 1

BeforeLoop == Decls(mPassNodes, 1) < MaxDecls

AfterLoop == Decls(mPassNodes, 1) = WrapCount

\* the handle of each node at its current version
CurrentHandles ==
    {Handle(k - 1, mResourceNodes[k].version) : k \in 1..Len(mResourceNodes)}

NextWrap ==
    \/ BeforeLoop /\ MorePasses /\ AddPass
    \/ BeforeLoop /\ MoreNodes /\ \E desc \in Descriptors : CreateTexture(desc)
    \/ (BeforeLoop \/ AfterLoop) /\
          \E h \in CurrentHandles, f \in FlagArgs : Write(h, f)
    \/ Decls(mPassNodes, 1) = 0 /\
          \E h \in CurrentHandles, n \in {WrapCount, WrapCount + 1} :
              WriteLoop(h, DefaultFlags, n)

SpecWrap == Init /\ [][NextWrap]_vars

\* One frame with larger graphs and no alias: every call is made with a
\* valid handle and the default flags, so that more declarations fit.
GraphPasses == 4
GraphNodes == 2
GraphDecls == 4

NextGraph ==
    \/ Len(mPassNodes) < GraphPasses /\ AddPass
    \/ Len(mResourceNodes) < GraphNodes /\
          \E desc \in Descriptors : CreateTexture(desc)
    \/ Decls(mPassNodes, 1) < GraphDecls /\
          \E h \in ValidHandles : Read(h, DefaultFlags)
    \/ Decls(mPassNodes, 1) < GraphDecls /\
          \E h \in ValidHandles : Write(h, DefaultFlags)
    \/ Len(mPassNodes) < GraphPasses /\ \E h \in ValidHandles : Present(h)
    \/ frame = 0 /\ CompileBegin
    \/ CullStep
    \/ CompileEnd
    \/ ExecutePass

SpecGraph == Init /\ [][NextGraph]_vars

\* One frame with more nodes and aliases: the aliases are recorded between
\* the last setup callback and compile()
AliasPasses == 2
AliasNodes == 3
AliasDecls == 2
AliasCount == 2

NextAlias ==
    \/ mAliases = <<>> /\ Len(mPassNodes) < AliasPasses /\ AddPass
    \/ mAliases = <<>> /\ Len(mResourceNodes) < AliasNodes /\
          \E desc \in Descriptors : CreateTexture(desc)
    \/ mAliases = <<>> /\ Decls(mPassNodes, 1) < AliasDecls /\
          \E h \in ValidHandles : Read(h, DefaultFlags)
    \/ mAliases = <<>> /\ Decls(mPassNodes, 1) < AliasDecls /\
          \E h \in ValidHandles : Write(h, DefaultFlags)
    \/ Len(mAliases) < AliasCount /\
          \E from \in ValidHandles, to \in ValidHandles : MoveResource(from, to)
    \/ frame = 0 /\ CompileBegin
    \/ CullStep
    \/ CompileEnd

SpecAlias == Init /\ [][NextAlias]_vars

\* ------------------------------------------------ reading the call trace
ExecuteDone == pc = "execute" /\ cur = Len(mPassNodes)

Compiled == pc = "execute"

Passes == 0..(Len(mPassNodes) - 1)

Resources == 0..(Len(mResourceRegistry) - 1)

IsDriverCall(c) ==
    c.call \in {"createTexture", "createRenderTarget",
                "destroyTexture", "destroyRenderTarget"}

\* the names of the Driver calls of the trace, in order
DriverCalls ==
    LET calls == SelectSeq(trace, IsDriverCall) IN
    [k \in 1..Len(calls) |-> calls[k].call]

\* positions of the trace
At(call, pass, res) ==
    {k \in 1..Len(trace) :
        trace[k].call = call /\ trace[k].pass = pass /\ trace[k].res = res}

Executions(pass) == At("execute", pass, NoResource)

AnyExecution == {k \in 1..Len(trace) : trace[k].call = "execute"}

Creations(res) == {k \in 1..Len(trace) : trace[k].call = "create" /\ trace[k].res = res}

Destructions(res) ==
    {k \in 1..Len(trace) : trace[k].call = "destroy" /\ trace[k].res = res}

Range(seq) == {seq[k] : k \in 1..Len(seq)}

\* the backing record a handle of a reads or writes list resolves to
Backing(h) == mResourceNodes[Index(h) + 1].resource

\* (pass, position) of the read / write entries that resolve to record r
ReadEntries(r) ==
    UNION {{<<p, k>> : k \in {j \in 1..Len(mPassNodes[p + 1].reads) :
                                   Backing(mPassNodes[p + 1].reads[j]) = r}} :
              p \in Passes}

WriteEntries(r) ==
    UNION {{<<p, k>> : k \in {j \in 1..Len(mPassNodes[p + 1].writes) :
                                   Backing(mPassNodes[p + 1].writes[j]) = r}} :
              p \in Passes}

\* ------------------------------------------------------------------- C1
\* Scenario S1 as registered: pass 0 ("GBuffer") created texture 0 and wrote
\* it with COLOR, present() was called with the handle the write returned.
S1Graph ==
    /\ Len(mResourceNodes) = 1
    /\ mAliases = <<>>
    /\ Len(mPassNodes) = 2
    /\ mPassNodes[1].name = "Pass"
    /\ mPassNodes[1].reads = <<>>
    /\ mPassNodes[1].writes = <<Handle(0, 1)>>
    /\ mPassNodes[2].name = "Present"
    /\ mPassNodes[2].reads = <<Handle(0, 1)>>
    /\ mPassNodes[2].writes = <<>>
    /\ mResourceNodes[1].writeFlags = {COLOR}

\* C1: when execute() has run the passes of scenario S1, GBuffer has
\* refCount > 0, color is in GBuffer's devirtualize list and in Present's
\* destroy list, and the Driver saw exactly createTexture, createRenderTarget,
\* destroyTexture, destroyRenderTarget.
C1_S1DriverTrace ==
    (S1Graph /\ ExecuteDone) =>
        /\ mPassNodes[1].refCount # 0
        /\ 0 \in Range(mPassNodes[1].devirtualize)
        /\ 0 \in Range(mPassNodes[2].destroy)
        /\ DriverCalls = <<"createTexture", "createRenderTarget",
                           "destroyTexture", "destroyRenderTarget">>

\* ------------------------------------------------------------------- C2
\* C2: when execute() has run the passes, every backing Resource kept by
\* compile() (readerCount > 0, first and last set) has first.id <= last.id, was
\* created once, in the create group just before first's executor, and
\* destroyed once, in the destroy group just after last's executor.
C2_LifetimeBracketing ==
    ExecuteDone =>
        \A r \in Resources :
            LET res == mResourceRegistry[r + 1] IN
            Realized(res) =>
                /\ res.first <= res.last
                /\ Cardinality(Creations(r)) = 1
                /\ Cardinality(Destructions(r)) = 1
                /\ \E c \in Creations(r), e \in Executions(res.first) :
                      c < e /\ \A x \in AnyExecution : ~(c < x /\ x < e)
                /\ \E d \in Destructions(r), e \in Executions(res.last) :
                      e < d /\ \A x \in AnyExecution : ~(e < x /\ x < d)

\* ------------------------------------------------------------------- C3
\* C3: after compile() every backing Resource with a reader or a writer has
\* writerCount <= 1, and the resource the cull loop pops next passes
\* assert(writerCount <= 1).
C3_WriterUniqueness ==
    /\ Compiled =>
          \A r \in Resources :
              LET res == mResourceRegistry[r + 1] IN
              (res.readerCount # 0 \/ res.writerCount # 0) => res.writerCount \in {0, 1}
    /\ (pc = "cull" /\ stack # <<>>) =>
          mResourceRegistry[stack[Len(stack)] + 1].writerCount \in {0, 1}

\* ------------------------------------------------------------------ C10
\* the passes with at least one write, all of whose writes go to backing
\* records that no pass reads
WritesOnlyUnread(p) ==
    /\ mPassNodes[p + 1].writes # <<>>
    /\ \A h \in Range(mPassNodes[p + 1].writes) : ReadEntries(Backing(h)) = {}

\* C10: when execute() has run the passes, a pass whose outputs are read by
\* no pass has refCount == 0 and was not executed, and its outputs are in no
\* devirtualize list and were not created.
C10_UnreadOutputCulled ==
    ExecuteDone =>
        \A p \in Passes :
            WritesOnlyUnread(p) =>
                /\ mPassNodes[p + 1].refCount = 0
                /\ Executions(p) = {}
                /\ \A h \in Range(mPassNodes[p + 1].writes) :
                      /\ \A q \in Passes :
                            Backing(h) \notin Range(mPassNodes[q + 1].devirtualize)
                      /\ Creations(Backing(h)) = {}

\* ------------------------------------------------------------------- C4
\* C4: for every valid handle h = {i, v}, Builder.write(h, flags) ORs flags
\* into node i's write flags, raises its version from v to v + 1, appends
\* {i, v + 1} to the writes of the current pass and returns {i, v + 1};
\* afterwards h is invalid and the returned handle valid; no other version
\* and no reads list changes.
C4_WriteBumpsVersion ==
    (pc = "register" /\ setup) =>
        \A h \in {c \in CurrentHandles : isValid(c)}, f \in FlagArgs :
            LET i == Index(h)
                v == Version(h)
                p == Len(mPassNodes)
                new == Handle(i, v + 1)
                w == Builder_write(mPassNodes, h, f) IN
            /\ w.nodes[i + 1].writeFlags = mResourceNodes[i + 1].writeFlags \cup f
            /\ mResourceNodes[i + 1].version = v
            /\ w.nodes[i + 1].version = v + 1
            /\ w.passes[p].writes = Append(mPassNodes[p].writes, new)
            /\ w.result = new
            /\ ~isValidIn(w.nodes, h)
            /\ isValidIn(w.nodes, w.result)
            /\ \A j \in 1..Len(mResourceNodes) :
                  j # i + 1 => w.nodes[j].version = mResourceNodes[j].version
            /\ \A q \in 1..Len(mPassNodes) : w.passes[q].reads = mPassNodes[q].reads

\* ------------------------------------------------------------------- C6
\* C6: the handle of node i issued after s successful writes on it (s = 0:
\* by createTexture) is valid while no write followed (whatever reads did),
\* and invalid after every number n >= 1 of later writes on node i.
C6_StaleAfterAnyWrites ==
    pc = "register" =>
        \A i \in 0..(Len(mResourceNodes) - 1) :
            \A s \in 0..serial[i + 1] :
                isValid(Handle(i, s % UInt16)) <=> s = serial[i + 1]

\* ------------------------------------------------------------------- C5
\* the handles a client holds that FrameGraph::isValid rejects: the
\* default-constructed one and those a later write made stale
StaleHandles == {h \in ClientHandles : ~isValid(h)}

\* C5: while a setup callback runs, Builder.read and Builder.write on the
\* sentinel or on a stale handle return the sentinel and leave the nodes
\* (versions, read and write flags) and every pass's reads and writes lists
\* as they were, and getTextureDesc returns null; the write entries recorded
\* for a node are exactly its successful writes, so compile() sees only the
\* valid declarations.
C5_StaleHandleNoOp ==
    /\ (pc = "register" /\ setup) =>
          \A h \in StaleHandles, f \in FlagArgs :
              LET rd == Builder_read(mPassNodes, h, f)
                  wr == Builder_write(mPassNodes, h, f) IN
              /\ rd.result = Sentinel
              /\ rd.nodes = mResourceNodes
              /\ rd.passes = mPassNodes
              /\ wr.result = Sentinel
              /\ wr.nodes = mResourceNodes
              /\ wr.passes = mPassNodes
              /\ SerialAfterWrite(h) = serial
              /\ getTextureDesc(h) = 0
    /\ \A i \in 0..(Len(mResourceNodes) - 1) :
          Cardinality(UNION {{<<p, k>> :
                                k \in {j \in 1..Len(mPassNodes[p + 1].writes) :
                                          Index(mPassNodes[p + 1].writes[j]) = i}} :
                             p \in Passes}) = serial[i + 1]

\* the forbidden diamond: pass 0 wrote h0 and got h1, pass 1 then passed the
\* stale h0 (or the sentinel) to read or write and got the sentinel back,
\* nothing recorded
C5_StaleCallHappened ==
    /\ pc = "register"
    /\ setup
    /\ Len(mPassNodes) = 2
    /\ mPassNodes[1].writes = <<Handle(0, 1)>>
    /\ mPassNodes[2].reads = <<>>
    /\ mPassNodes[2].writes = <<>>
    /\ Handle(0, 0) \in StaleHandles
    /\ ret = Sentinel

\* ------------------------------------------------------------------- C7
\* C7: while a setup callback runs, Builder.read on a valid handle h = {i, v}
\* ORs the flags into node i's read flags, appends one entry {i, v} to the
\* reads of the current pass (also when h is already there), returns h and
\* changes no version, no other node and no writes list; and when compile()
\* has counted, the readerCount of every backing record is the number of read
\* entries, over all passes and with multiplicity, that resolve to it.
C7_ReadAppends ==
    /\ [](  (pc = "register" /\ setup) =>
              \A h \in ValidHandles, f \in FlagArgs :
                  LET i == Index(h)
                      p == Len(mPassNodes)
                      rd == Builder_read(mPassNodes, h, f) IN
                  /\ rd.result = h
                  /\ rd.nodes = [mResourceNodes EXCEPT
                                    ![i + 1].readFlags = @ \cup f]
                  /\ rd.passes = [mPassNodes EXCEPT ![p].reads = Append(@, h)]
                  /\ Len(rd.passes[p].reads) = Len(mPassNodes[p].reads) + 1
                  /\ \A q \in 1..Len(mPassNodes) :
                        rd.passes[q].writes = mPassNodes[q].writes  )
    /\ [][ (pc = "register" /\ pc' = "cull") =>
              \A r \in Resources' :
                  mResourceRegistry'[r + 1].readerCount =
                      Cardinality(ReadEntries(r))' ]_vars

\* compile() has counted two reads of the same handle by the same pass
C7_SameHandleReadTwice ==
    /\ pc = "cull"
    /\ \E p \in Passes :
          /\ Len(mPassNodes[p + 1].reads) = 2
          /\ mPassNodes[p + 1].reads[1] = mPassNodes[p + 1].reads[2]
          /\ mResourceRegistry[Backing(mPassNodes[p + 1].reads[1]) + 1].readerCount = 2

\* ------------------------------------------------------------------- C8
CreateCalls == {"create", "createTexture", "createRenderTarget"}

DestroyCalls == {"destroy", "destroyTexture", "destroyRenderTarget"}

\* C8: in the trace of execute(), the calls are grouped by pass in increasing
\* pass id; a pass with refCount == 0 has no call at all, every other pass
\* the loop has reached has exactly one executor invocation, with the create
\* calls of the ids of its devirtualize list before it and the destroy calls
\* of the ids of its destroy list after it.
C8_ExecutionOrder ==
    pc = "execute" =>
        /\ \A k, l \in 1..Len(trace) : k < l => trace[k].pass <= trace[l].pass
        /\ \A p \in Passes :
              LET node == mPassNodes[p + 1] IN
              /\ node.id = p
              /\ node.refCount = 0 => \A k \in 1..Len(trace) : trace[k].pass # p
              /\ (node.refCount # 0 /\ p < cur) => Cardinality(Executions(p)) = 1
              /\ p >= cur => \A k \in 1..Len(trace) : trace[k].pass # p
              /\ \A e \in Executions(p) :
                    /\ \A k \in 1..Len(trace) :
                          (trace[k].pass = p /\ trace[k].call \in CreateCalls) =>
                              k < e /\ trace[k].res \in Range(node.devirtualize)
                    /\ \A k \in 1..Len(trace) :
                          (trace[k].pass = p /\ trace[k].call \in DestroyCalls) =>
                              e < k /\ trace[k].res \in Range(node.destroy)
                    /\ \A id \in Range(node.devirtualize) :
                          \E c \in At("create", p, id) : c < e
                    /\ \A id \in Range(node.destroy) :
                          \E d \in At("destroy", p, id) : e < d

\* execute() ran two passes, skipped one, created and destroyed a resource
C8_TwoPassesExecuted ==
    /\ ExecuteDone
    /\ Cardinality(AnyExecution) >= 2
    /\ \E p \in Passes : mPassNodes[p + 1].refCount = 0
    /\ \E k \in 1..Len(trace) : trace[k].call \in {"createTexture", "createRenderTarget"}
    /\ \E k \in 1..Len(trace) : trace[k].call \in {"destroyTexture", "destroyRenderTarget"}

\* ------------------------------------------------------------------- C9
\* C9: the step with which execute() returns leaves zero pass nodes, zero
\* resource nodes, zero aliases and zero registry entries, whatever graph was
\* registered and compiled; a createTexture after it returns {0, 0} and a
\* createPass after it gives id 0.
C9_EmptyAfterExecute ==
    [][ (pc = "execute" /\ pc' = "register") =>
            /\ mPassNodes' = <<>>
            /\ mResourceNodes' = <<>>
            /\ mAliases' = <<>>
            /\ mResourceRegistry' = <<>>
            /\ \A desc \in Descriptors :
                  (Builder_createTexture(desc).result)' = Handle(0, 0)
            /\ (createPass("Pass")[Len(createPass("Pass"))].id)' = 0 ]_vars

\* the second frame: execute() has returned once, and the first createTexture
\* and the first addPass after it have been made
C9_NextFrameStarted ==
    /\ frame = 1
    /\ pc = "register"
    /\ Len(mPassNodes) = 1
    /\ mPassNodes[1].id = 0
    /\ Len(mResourceNodes) = 1
    /\ ret = Handle(0, 0)

\* ------------------------------------------------------------------ C11
\* the passes present() made with a valid handle
PresentPasses ==
    {p \in Passes : mPassNodes[p + 1].name = "Present" /\ mPassNodes[p + 1].reads # <<>>}

\* the passes whose reads are pinned: the Present passes and the passes
\* with refCount >= 1 (an unsigned counter: not 0)
PinnedPasses == PresentPasses \cup {p \in Passes : mPassNodes[p + 1].refCount # 0}

\* C11: in a graph without aliases, the backing Resource of a handle given to
\* present() is never on the cull stack; after compile() every resource read
\* by a Present pass or by a pass with refCount >= 1 has readerCount >= 1 and
\* its recorded writer has refCount >= 1, and execute() invokes that writer's
\* executor.
C11_PresentPins ==
    mAliases = <<>> =>
        /\ pc = "cull" =>
              \A p \in PresentPasses : \A h \in Range(mPassNodes[p + 1].reads) :
                  /\ Backing(h) \notin Range(stack)
                  /\ mResourceRegistry[Backing(h) + 1].readerCount # 0
        /\ pc = "execute" =>
              \A p \in PinnedPasses : \A h \in Range(mPassNodes[p + 1].reads) :
                  LET res == mResourceRegistry[Backing(h) + 1] IN
                  /\ res.readerCount # 0
                  /\ res.writer # NoPass =>
                        /\ mPassNodes[res.writer + 1].refCount # 0
                        /\ ExecuteDone => Cardinality(Executions(res.writer)) = 1

\* execute() has run a graph in which present() pins a resource whose writer
\* reads a resource written by an earlier pass
C11_PinnedChain ==
    /\ ExecuteDone
    /\ mAliases = <<>>
    /\ \E p \in PresentPasses : \E h \in Range(mPassNodes[p + 1].reads) :
          LET w == mResourceRegistry[Backing(h) + 1].writer IN
          /\ w # NoPass
          /\ \E g \in Range(mPassNodes[w + 1].reads) :
                LET v == mResourceRegistry[Backing(g) + 1].writer IN
                /\ v # NoPass
                /\ v < w
                /\ Executions(v) # {}
                /\ Executions(w) # {}

\* ------------------------------------------------------------------ C12
\* the backing records some pass reads and no pass writes
Writerless == {r \in Resources : ReadEntries(r) # {} /\ WriteEntries(r) = {}}

\* C12: after compile() a resource that is read and never written is in no
\* devirtualize and no destroy list, and execute() makes no Driver create
\* call for it; a pass that reads it keeps the refCount its own writes give
\* it (at most the number of its write entries).
C12_WriterlessDropped ==
    pc = "execute" =>
        \A r \in Writerless :
            /\ \A p \in Passes :
                  /\ r \notin Range(mPassNodes[p + 1].devirtualize)
                  /\ r \notin Range(mPassNodes[p + 1].destroy)
                  /\ (\E h \in Range(mPassNodes[p + 1].reads) : Backing(h) = r) =>
                        mPassNodes[p + 1].refCount \in 0..Len(mPassNodes[p + 1].writes)
            /\ \A k \in 1..Len(trace) :
                  (IsDriverCall(trace[k]) /\ trace[k].call \in CreateCalls) =>
                      trace[k].res # r

\* ------------------------------------------------------------------ C13
\* the last alias that names node index d as its destination, 0 if none
LastAliasTo(d) ==
    LET named == {k \in 1..Len(mAliases) : Index(mAliases[k].to) = d} IN
    IF named = {} THEN 0 ELSE CHOOSE k \in named : \A j \in named : j <= k

\* the nodes that point at registry entry r
NodesOf(r) == {i \in 0..(Len(mResourceNodes) - 1) : mResourceNodes[i + 1].resource = r}

Untouched(res) ==
    /\ res.readerCount = 0
    /\ res.writerCount = 0
    /\ res.first = NoPass
    /\ res.last = NoPass
    /\ res.writer = NoPass

\* C13 as claimed: after compile(), for the last alias {src, dst} that names
\* dst, the nodes of src and dst both point at the record materialized for
\* src's index, every write entry through either node is counted there, and
\* the record materialized for dst's index keeps all counts at 0.
C13_AliasSharesSrcRecord ==
    pc # "register" =>
        \A d \in 0..(Len(mResourceNodes) - 1) :
            LastAliasTo(d) # 0 =>
                LET src == Index(mAliases[LastAliasTo(d)].from) IN
                /\ mResourceNodes[src + 1].resource = src
                /\ mResourceNodes[d + 1].resource = src
                /\ mResourceRegistry[src + 1].writerCount =
                      Cardinality(WriteEntries(src))
                /\ d # src => Untouched(mResourceRegistry[d + 1])

\* the record node i points at when the first k aliases have been applied
RECURSIVE BackingAfter(_, _)
BackingAfter(i, k) ==
    IF k = 0 THEN i
    ELSE IF Index(mAliases[k].to) = i
         THEN BackingAfter(Index(mAliases[k].from), k - 1)
         ELSE BackingAfter(i, k - 1)

\* C13 as amended: after compile(), every alias {src, dst} in registration
\* order has redirected dst's node to the record src's node pointed at when
\* the alias was applied (the last alias naming dst decides), every write
\* entry is counted on the record its node points at, a record no node
\* points at keeps all counts at 0, and when compile() has counted,
\* readerCount is the number of read entries whose node points at the record.
C13_AliasRemap ==
    /\ [](  pc # "register" =>
              /\ \A i \in 0..(Len(mResourceNodes) - 1) :
                    /\ mResourceNodes[i + 1].resource =
                          BackingAfter(i, Len(mAliases))
                    /\ LastAliasTo(i) # 0 =>
                          mResourceNodes[i + 1].resource =
                              BackingAfter(Index(mAliases[LastAliasTo(i)].from),
                                           LastAliasTo(i) - 1)
              /\ \A r \in Resources :
                    /\ mResourceRegistry[r + 1].writerCount =
                          Cardinality(WriteEntries(r))
                    /\ NodesOf(r) = {} => Untouched(mResourceRegistry[r + 1])  )
    /\ [][ (pc = "register" /\ pc' = "cull") =>
              \A r \in Resources' :
                  mResourceRegistry'[r + 1].readerCount =
                      Cardinality(ReadEntries(r))' ]_vars

\* compile() has applied two aliases that name the same destination, from
\* different sources, and writes through the destination and through the
\* last source are counted on one record
C13_LastAliasWins ==
    /\ pc # "register"
    /\ Len(mAliases) = 2
    /\ Index(mAliases[1].to) = Index(mAliases[2].to)
    /\ Cardinality({Index(mAliases[1].from), Index(mAliases[2].from),
                    Index(mAliases[2].to)}) = 3
    /\ \E p, q \in Passes :
          /\ \E h \in Range(mPassNodes[p + 1].writes) : Index(h) = Index(mAliases[2].to)
          /\ \E h \in Range(mPassNodes[q + 1].writes) : Index(h) = Index(mAliases[2].from)
    /\ mResourceRegistry[Index(mAliases[2].from) + 1].writerCount = 2

\* ------------------------------------------------------------------ C14
\* Scenario S5 as registered: pass 0 created gbuf and wrote it with
\* COLOR|DEPTH, pass 1 read it with DEPTH, present() read it with the default
\* flags.
S5Graph ==
    /\ Len(mResourceNodes) = 1
    /\ mAliases = <<>>
    /\ Len(mPassNodes) = 3
    /\ mPassNodes[1].name = "Pass"
    /\ mPassNodes[1].reads = <<>>
    /\ mPassNodes[1].writes = <<Handle(0, 1)>>
    /\ mPassNodes[2].name = "Pass"
    /\ mPassNodes[2].reads = <<Handle(0, 1)>>
    /\ mPassNodes[2].writes = <<>>
    /\ mPassNodes[3].name = "Present"
    /\ mPassNodes[3].reads = <<Handle(0, 1)>>
    /\ mResourceNodes[1].writeFlags = {COLOR, DEPTH}
    /\ mResourceNodes[1].readFlags = {DEPTH} \cup DefaultFlags

\* C14: when execute() has run scenario S5, the executor of the reader pass
\* was invoked and getTexture(gbuf, DEFAULT) is the depth texture (slot 1) of
\* the backing Resource, a created texture and not slot 0; and for every
\* handle getTexture(DEFAULT) is slot 1 iff the read flags are exactly DEPTH,
\* COLOR_ATTACHMENT is slot 0, DEPTH_ATTACHMENT is slot 1.
C14_DepthOnlyRead ==
    /\ (S5Graph /\ ExecuteDone) =>
          LET res == mResourceRegistry[Backing(Handle(0, 1)) + 1] IN
          /\ Executions(1) # {}
          /\ getTexture(Handle(0, 1), "DEFAULT") = res.textures[2]
          /\ getTexture(Handle(0, 1), "DEFAULT") # NullHandle
          /\ getTexture(Handle(0, 1), "DEFAULT") # res.textures[1]
    /\ pc = "execute" =>
          \A h \in CurrentHandles :
              LET res == mResourceRegistry[Backing(h) + 1] IN
              /\ getTexture(h, "DEFAULT") =
                    IF res.readFlags = {DEPTH} THEN res.textures[2]
                    ELSE res.textures[1]
              /\ getTexture(h, "COLOR_ATTACHMENT") = res.textures[1]
              /\ getTexture(h, "DEPTH_ATTACHMENT") = res.textures[2]

\* ------------------------------------------------------------------ C15
\* the number of times x occurs in seq
Occurrences(seq, x) == Cardinality({k \in 1..Len(seq) : seq[k] = x})

\* C15: after compile() every backing Resource with readerCount > 0 has its
\* first and last pass set with first.id <= last.id, its registry index is
\* once in first's devirtualize list and once in last's destroy list, and in
\* no other pass's devirtualize or destroy list.
C15_FirstLastLists ==
    pc = "execute" =>
        \A r \in Resources :
            LET res == mResourceRegistry[r + 1] IN
            res.readerCount # 0 =>
                /\ res.first # NoPass
                /\ res.last # NoPass
                /\ res.first <= res.last
                /\ mPassNodes[res.first + 1].id = res.first
                /\ mPassNodes[res.last + 1].id = res.last
                /\ \A p \in Passes :
                      /\ Occurrences(mPassNodes[p + 1].devirtualize, r) =
                            IF p = res.first THEN 1 ELSE 0
                      /\ Occurrences(mPassNodes[p + 1].destroy, r) =
                            IF p = res.last THEN 1 ELSE 0

\* compile() has kept a resource whose first pass is not its last
C15_FirstBeforeLast ==
    /\ pc = "execute"
    /\ \E r \in Resources :
          LET res == mResourceRegistry[r + 1] IN
          /\ res.readerCount # 0
          /\ res.first # NoPass
          /\ res.first < res.last
          /\ r \in Range(mPassNodes[res.first + 1].devirtualize)
          /\ r \in Range(mPassNodes[res.last + 1].destroy)

\* ------------------------------------------------------------------ C16
\* write-to-read edge: some record written by pass p is read by pass q
FeedsInto(p, q) ==
    \E w \in Range(mPassNodes[p + 1].writes), g \in Range(mPassNodes[q + 1].reads) :
        Backing(w) = Backing(g)

\* the passes reachable from the passes of S over at most n edges
RECURSIVE Downstream(_, _)
Downstream(S, n) ==
    IF n = 0 THEN S
    ELSE Downstream(S \cup {q \in Passes : \E p \in S : FeedsInto(p, q)}, n - 1)

\* the write entries of pass p whose record still has a reader
ConsumedWrites(p) ==
    {k \in 1..Len(mPassNodes[p + 1].writes) :
        mResourceRegistry[Backing(mPassNodes[p + 1].writes[k]) + 1].readerCount # 0}

\* C16: after compile() every pass with refCount > 0 has as refCount the
\* number of its write entries whose record still has readerCount > 0, and
\* that number is > 0, or else a Present pass is reachable from it over
\* write-to-read edges.
C16_RefCountInvariant ==
    pc = "execute" =>
        \A p \in Passes :
            mPassNodes[p + 1].refCount # 0 =>
                \/ /\ mPassNodes[p + 1].refCount = Cardinality(ConsumedWrites(p))
                   /\ Cardinality(ConsumedWrites(p)) > 0
                \/ \E q \in Downstream({p}, Len(mPassNodes)) :
                      mPassNodes[q + 1].name = "Present"

\* ------------------------------------------------------------------ C17
\* C17: in whichever frame scenario S1 is registered, compiled and executed,
\* the nodes, the refCounts, the devirtualize and destroy lists and the calls
\* of execute() are the same; and the step with which execute() returns
\* leaves every variable of the frame graph as it was before the first frame,
\* so nothing recorded in one frame can influence the next.
C17_SameInEveryFrame ==
    /\ [](  (S1Graph /\ ExecuteDone) =>
              /\ mResourceNodes[1].index = 0
              /\ mResourceNodes[1].version = 1
              /\ mResourceNodes[1].readFlags = DefaultFlags
              /\ mResourceNodes[1].resource = 0
              /\ mPassNodes[1].id = 0
              /\ mPassNodes[2].id = 1
              /\ mPassNodes[1].refCount = 1
              /\ mPassNodes[2].refCount = 0
              /\ mPassNodes[1].devirtualize = <<0>>
              /\ mPassNodes[1].destroy = <<>>
              /\ mPassNodes[2].devirtualize = <<>>
              /\ mPassNodes[2].destroy = <<0>>
              /\ Len(mResourceRegistry) = 1
              /\ mResourceRegistry[1].readerCount = 1
              /\ mResourceRegistry[1].writerCount = 1
              /\ mResourceRegistry[1].first = 0
              /\ mResourceRegistry[1].last = 1
              /\ mResourceRegistry[1].writer = 0
              /\ trace = <<Call("create", 0, 0, NullHandle),
                           Call("createTexture", 0, 0, 2),
                           Call("createRenderTarget", 0, 0, 3),
                           Call("execute", 0, NoResource, NullHandle)>>  )
    /\ [][ (pc = "execute" /\ pc' = "register") =>
              /\ mPassNodes' = <<>>
              /\ mResourceNodes' = <<>>
              /\ mResourceRegistry' = <<>>
              /\ mAliases' = <<>>
              /\ stack' = <<>>
              /\ cur' = 0
              /\ setup' = FALSE
              /\ ret' = Void
              /\ trace' = <<>>
              /\ serial' = <<>> ]_vars

\* scenario S1 has been run a second time on the same FrameGraph
C17_SecondFrameRan ==
    /\ frame = 1
    /\ S1Graph
    /\ ExecuteDone
    /\ DriverCalls = <<"createTexture", "createRenderTarget">>

\* ------------------------------------------------------------------ C18
\* the passes with a read or write entry that resolves to record r, and
\* those with a write entry
Touching(r) == {e[1] : e \in ReadEntries(r) \cup WriteEntries(r)}

Writing(r) == {e[1] : e \in WriteEntries(r)}

Lowest(S) == CHOOSE p \in S : \A q \in S : p <= q

Highest(S) == CHOOSE p \in S : \A q \in S : q <= p

\* C18: from the end of the counting loop of compile() on, through culling
\* and execute(), every backing Resource has first set iff last set; they are
\* the lowest and the highest id of the passes with a read or write entry
\* that resolves to the record, and writer is the highest id of the passes
\* with a write entry (unset when there is none).
C18_FirstLastWriter ==
    pc # "register" =>
        \A r \in Resources :
            LET res == mResourceRegistry[r + 1] IN
            /\ (res.first = NoPass) <=> (res.last = NoPass)
            /\ IF Touching(r) = {}
               THEN res.first = NoPass /\ res.last = NoPass
               ELSE res.first = Lowest(Touching(r)) /\ res.last = Highest(Touching(r))
            /\ IF Writing(r) = {}
               THEN res.writer = NoPass
               ELSE res.writer = Highest(Writing(r))

\* compile() has culled the recorded writer of a record that an earlier pass
\* touched first
C18_WriterCulled ==
    /\ pc = "execute"
    /\ \E r \in Resources :
          LET res == mResourceRegistry[r + 1] IN
          /\ res.writer # NoPass
          /\ res.first < res.last
          /\ mPassNodes[res.writer + 1].refCount = 0

\* ------------------------------------------------------------------ C19
\* the handles pass p declared through a successful read or write
Declared(p) == Range(mPassNodes[p + 1].reads) \cup Range(mPassNodes[p + 1].writes)

\* C19: for every executor invocation in the trace of execute(), every
\* resource the pass declared has had create() called before the invocation
\* and destroy() not called before it.
C19_RealizedBeforeUse ==
    pc = "execute" =>
        \A e \in AnyExecution :
            \A h \in Declared(trace[e].pass) :
                /\ \E c \in Creations(Backing(h)) : c < e
                /\ \A d \in Destructions(Backing(h)) : e < d

\* ------------------------------------------------------------------ C20
\* the Driver call that releases what the Driver call named create returned
Releasing(create) ==
    IF create = "createTexture" THEN "destroyTexture" ELSE "destroyRenderTarget"

\* C20: when execute() has run the passes and is about to clear the
\* registry, every texture and render target a Resource created has been
\* passed to the matching Driver destroy call, and every registry entry
\* passes the assertions of ~Resource: textures[0], textures[1] and target
\* are null.
C20_NothingOutlivesFrame ==
    ExecuteDone =>
        /\ \A k \in 1..Len(trace) :
              trace[k].call \in {"createTexture", "createRenderTarget"} =>
                  \E l \in (k + 1)..Len(trace) :
                      /\ trace[l].call = Releasing(trace[k].call)
                      /\ trace[l].handle = trace[k].handle
        /\ \A r \in Resources :
              /\ mResourceRegistry[r + 1].textures[1] = NullHandle
              /\ mResourceRegistry[r + 1].textures[2] = NullHandle
              /\ mResourceRegistry[r + 1].target = NullHandle

\* ------------------------------------------------------------------ C21
\* the Driver call that returned what the Driver call named destroy releases
Creating(destroy) ==
    IF destroy = "destroyTexture" THEN "createTexture" ELSE "createRenderTarget"

DriverDestroys ==
    {k \in 1..Len(trace) : trace[k].call \in {"destroyTexture", "destroyRenderTarget"}}

DriverCreates ==
    {k \in 1..Len(trace) : trace[k].call \in {"createTexture", "createRenderTarget"}}

\* C21: in the trace of execute() every backing Resource has create() called
\* at most once and destroy() at most once; every Driver destroy call
\* releases a handle that an earlier Driver create call of the matching kind
\* returned, no handle is released twice, and no create of a Resource follows
\* its destroy.
C21_CreateDestroyPairing ==
    pc = "execute" =>
        /\ \A r \in Resources :
              /\ Cardinality(Creations(r)) <= 1
              /\ Cardinality(Destructions(r)) <= 1
              /\ \A d \in Destructions(r) :
                    \A k \in (d + 1)..Len(trace) :
                        trace[k].res = r => trace[k].call \notin CreateCalls
        /\ \A d \in DriverDestroys :
              /\ trace[d].handle # NullHandle
              /\ \E c \in DriverCreates :
                    /\ c < d
                    /\ trace[c].call = Creating(trace[d].call)
                    /\ trace[c].handle = trace[d].handle
                    /\ trace[c].res = trace[d].res
              /\ \A e \in DriverDestroys :
                    trace[e].handle = trace[d].handle => e = d

\* execute() has released a texture it created, and has called destroy() on
\* a Resource on which create() was never called
C21_PairedAndUnpaired ==
    /\ ExecuteDone
    /\ \E c \in DriverCreates, d \in DriverDestroys :
          c < d /\ trace[c].handle = trace[d].handle
    /\ \E r \in Resources : Destructions(r) # {} /\ Creations(r) = {}

\* ------------------------------------------------------------------ C22
\* what one iteration of the cull loop pushed: the entries of stack' above
\* the ones that stay
Pushed == {stack'[k] : k \in Len(stack)..Len(stack')}

\* C22: during culling no counter goes below 0: the writer of the resource
\* the loop pops next has refCount >= 1, refCount and readerCount never
\* increase and never pass 0, a resource is pushed exactly when its
\* readerCount goes from positive to 0 (so at most once), and a pass's reads
\* are released when its refCount goes from 1 to 0 (so at most once).
C22_NoUnderflow ==
    /\ [](  pc = "cull" =>
              /\ \A p \in Passes : mPassNodes[p + 1].refCount >= 0
              /\ \A r \in Resources : mResourceRegistry[r + 1].readerCount >= 0
              /\ \A k \in 1..Len(stack) :
                    /\ mResourceRegistry[stack[k] + 1].readerCount = 0
                    /\ \A l \in 1..Len(stack) : stack[l] = stack[k] => l = k
              /\ stack # <<>> =>
                    LET writer == mResourceRegistry[stack[Len(stack)] + 1].writer IN
                    writer # NoPass => mPassNodes[writer + 1].refCount >= 1  )
    /\ [][ (pc = "cull" /\ pc' = "cull") =>
              /\ \A p \in Passes :
                    /\ mPassNodes'[p + 1].refCount <= mPassNodes[p + 1].refCount
                    /\ mPassNodes'[p + 1].refCount >= mPassNodes[p + 1].refCount - 1
              /\ \A r \in Resources :
                    /\ mResourceRegistry'[r + 1].readerCount <=
                          mResourceRegistry[r + 1].readerCount
                    /\ r \in Pushed <=>
                          /\ mResourceRegistry[r + 1].readerCount > 0
                          /\ mResourceRegistry'[r + 1].readerCount = 0
              /\ Len(stack') = Len(stack) - 1 + Cardinality(Pushed) ]_vars

\* the cull loop has culled a pass and pushed a resource that pass read
C22_ReadsReleased ==
    /\ pc = "cull"
    /\ \E p \in Passes :
          /\ mPassNodes[p + 1].writes # <<>>
          /\ mPassNodes[p + 1].refCount = 0
          /\ \E h \in Range(mPassNodes[p + 1].reads) : Backing(h) \in Range(stack)

\* ---------------------------------------------------------------- C23
\* compile() runs to its end once called: each iteration of the cull loop
\* is taken while the stack is not empty, and the last loop follows it.
SpecCompile == Init /\ [][Next]_vars /\ WF_vars(CullStep) /\ WF_vars(CompileEnd)

\* what is left to do in the cull loop: the stack entries to pop and the
\* reads to release
RECURSIVE SumReaders(_)
SumReaders(k) ==
    IF k = 0 THEN 0 ELSE mResourceRegistry[k].readerCount + SumReaders(k - 1)

CullWork == Len(stack) + SumReaders(Len(mResourceRegistry))

\* C23: compile() terminates for every finite graph. Once compile() has
\* entered its cull loop it reaches its end (execute() can start), for
\* graphs with a pass that reads and writes one resource and for graphs
\* with aliases alike: every iteration of the loop lowers the work that is
\* left, the stack entries plus the reads not yet released, which is
\* never negative.
C23_CompileTerminates ==
    /\ (pc = "cull") ~> (pc = "execute")
    /\ [](pc = "cull" => CullWork >= 0)
    /\ [][ (pc = "cull" /\ pc' = "cull") =>
              LET after == CullWork' IN after < CullWork ]_vars

\* compile() has ended for a graph with an alias in which a pass reads and
\* writes the same backing record
C23_CycleCompiled ==
    /\ pc = "execute"
    /\ mAliases # <<>>
    /\ \E p \in Passes :
          \E h \in Range(mPassNodes[p + 1].reads),
             g \in Range(mPassNodes[p + 1].writes) : Backing(h) = Backing(g)

\* ---------------------------------------------------------------- C24
\* One frame in which moveResource is called between the setup callbacks,
\* so that a later write makes a recorded alias handle stale, and in which
\* the textures differ by their descriptors.
MovePasses == 2
MoveNodes == 3
MoveDecls == 2
MoveAliases == 2
MoveDesc == 2

NextMove ==
    \/ Len(mPassNodes) < MovePasses /\ AddPass
    \/ Len(mResourceNodes) < MoveNodes /\
          \E desc \in 1..MoveDesc : CreateTexture(desc)
    \/ Decls(mPassNodes, 1) < MoveDecls /\
          \E h \in ValidHandles : Read(h, DefaultFlags)
    \/ Decls(mPassNodes, 1) < MoveDecls /\
          \E h \in ValidHandles : Write(h, DefaultFlags)
    \/ Len(mAliases) < MoveAliases /\
          \E from \in ValidHandles, to \in ValidHandles : MoveResource(from, to)
    \/ frame = 0 /\ CompileBegin
    \/ CullStep
    \/ CompileEnd

SpecMove == Init /\ [][NextMove]_vars

\* registry entry res carries the descriptor and the flag sets of node
SameDeclarations(res, node) ==
    /\ res.desc = node.desc
    /\ res.readFlags = node.readFlags
    /\ res.writeFlags = node.writeFlags

\* C24 as claimed: after compile(), for the last alias {from, to} that names
\* to, the record the node of to points at carries the descriptor and the
\* flag sets of the node of from.
C24_FromNodeDeclarations ==
    pc # "register" =>
        \A d \in 0..(Len(mResourceNodes) - 1) :
            LastAliasTo(d) # 0 =>
                SameDeclarations(
                    mResourceRegistry[mResourceNodes[d + 1].resource + 1],
                    mResourceNodes[Index(mAliases[LastAliasTo(d)].from) + 1])

\* C24 as amended: after compile() every record carries the descriptor and
\* the flag sets of the node of its own index, whichever nodes the aliases
\* redirect to it, while the read and write entries made through those
\* nodes are counted on it; the record of a node is decided by the indices
\* of the alias handles alone, and the entries are counted by the indices
\* of the recorded handles alone, whatever their versions.
C24_DeclarationsByIndex ==
    /\ [](  pc # "register" =>
              /\ \A r \in Resources :
                    /\ SameDeclarations(mResourceRegistry[r + 1],
                                        mResourceNodes[r + 1])
                    /\ mResourceRegistry[r + 1].writerCount =
                          Cardinality({e \in UNION {{<<p, k>> :
                                  k \in 1..Len(mPassNodes[p + 1].writes)} : p \in Passes} :
                              BackingAfter(Index(mPassNodes[e[1] + 1].writes[e[2]]),
                                           Len(mAliases)) = r})
              /\ \A i \in 0..(Len(mResourceNodes) - 1) :
                    mResourceNodes[i + 1].resource = BackingAfter(i, Len(mAliases))  )
    /\ [][ (pc = "register" /\ pc' = "cull") =>
              \A r \in Resources' :
                  mResourceRegistry'[r + 1].readerCount =
                      Cardinality({e \in UNION {{<<p, k>> :
                              k \in 1..Len(mPassNodes[p + 1].reads)} : p \in Passes} :
                          BackingAfter(Index(mPassNodes[e[1] + 1].reads[e[2]]),
                                       Len(mAliases)) = r}) ]_vars

\* compile() has applied an alias recorded with a handle that a later write
\* made stale, and a read declared through the destination node of an
\* alias is counted on a record whose readFlags are empty
C24_ToSideReadNotMerged ==
    /\ pc # "register"
    /\ \E k \in 1..Len(mAliases) :
          \/ Version(mAliases[k].from) # mResourceNodes[Index(mAliases[k].from) + 1].version
          \/ Version(mAliases[k].to) # mResourceNodes[Index(mAliases[k].to) + 1].version
    /\ \E k \in 1..Len(mAliases) :
          LET to == Index(mAliases[k].to)
              r == mResourceNodes[to + 1].resource IN
          /\ r # to
          /\ mResourceNodes[to + 1].readFlags # {}
          /\ mResourceRegistry[r + 1].readFlags = {}
          /\ mResourceRegistry[r + 1].readerCount >= 1

\* ---------------------------------------------------------------- C25
\* the texture slot of an attachment role: textures[0] for COLOR,
\* textures[1] for DEPTH
Slot(role) == IF role = COLOR THEN 1 ELSE 2

\* C25: for every Resource that create() has been called on in the running
\* execute(), a render target was created iff writerCount > 0, the texture
\* slot of a role was created iff readerCount > 0 and the role is in
\* readFlags, and when a render target was created every role of writeFlags
\* has its texture slot created: the roles of writeFlags are among those of
\* readFlags.
C25_AttachmentsBacked ==
    pc = "execute" =>
        \A r \in Resources :
            Creations(r) # {} =>
                LET res == mResourceRegistry[r + 1] IN
                /\ res.target # NullHandle <=> res.writerCount # 0
                /\ \A role \in {COLOR, DEPTH} :
                      res.textures[Slot(role)] # NullHandle <=>
                          (res.readerCount # 0 /\ role \in res.readFlags)
                /\ res.target # NullHandle =>
                      /\ \A role \in res.writeFlags :
                            res.textures[Slot(role)] # NullHandle
                      /\ res.writeFlags \subseteq res.readFlags

====
